---- MODULE Spec2Model ----
(***************************************************************************)
(* Model of src/whiteboard.py: the WhiteboardApp event handlers that own   *)
(* the stroke history (undo_stack / redo_stack), the pending stroke, the   *)
(* drawing mode and the tagged items of the Tk canvas.                     *)
(*                                                                         *)
(* Optional[T] values are modelled as sequences: None is <<>> and a value  *)
(* v is <<v>>.  Canvas items carry their Tk id, kind, tags and state;      *)
(* geometry and styling are written by the handlers but never read back,   *)
(* so items do not carry them.                                             *)
(*                                                                         *)
(* The drawing handlers and the analysis feature share no field, so they   *)
(* are explored by two specifications: Spec runs the drawing handlers of a *)
(* process started without credentials, SpecAnalysis runs analyze_drawing, *)
(* its worker threads and the UI thread's scheduled callbacks under every  *)
(* environment.                                                            *)
(***************************************************************************)
EXTENDS Integers, Sequences, FiniteSets, TLC

\* ---- bounds of the model ------------------------------------------------
MaxCoord == 0
MaxStrokes == 2
MaxItems == 2
MaxAnalyses == 2

Coord == 0..MaxCoord

\* ---- Optional values ----------------------------------------------------
None == <<>>
Some(v) == <<v>>

\* Python truthiness of an Optional canvas item id ("if self._preview_item")
TruthyItem(o) == o # None /\ o[1] # 0
\* Python truthiness of an Optional tag string ("and self.current_stroke_tag")
TruthyTag(o) == o # None /\ o[1] # ""

\* ---- program state ------------------------------------------------------
VARIABLES
    draw_mode,                  \* "pen", "line", "rectangle", "circle"
    stroke_index,               \* next stroke number
    current_stroke_tag,         \* Optional tag of the stroke in progress
    _current_stroke_has_items,  \* whether the stroke in progress has items
    undo_stack,                 \* sequence of stroke tags (active)
    redo_stack,                 \* sequence of stroke tags (undone)
    _last_x,                    \* Optional anchor / last pointer x
    _last_y,                    \* Optional anchor / last pointer y
    _preview_item,              \* Optional canvas id of the shape preview
    canvas,                     \* set of items [id, kind, tags, state]
    next_item,                  \* id the canvas gives to its next item
    button1,                    \* whether mouse button 1 is held on the canvas
    event,                      \* history: name of the handler dispatched last
    before,                     \* history: the two stacks as that handler found them
    committed,                  \* history: tags _end_draw appended since the last clear
    invalidated,                \* history: tags in redo_stack when _end_draw cleared it, since the last clear
    unedited,                   \* history: no undo or redo took effect since the last clear
    down_mode,                  \* history: draw_mode at the pointer-down of the stroke in progress
    allocated,                  \* history: every tag a pointer-down has allocated
    environ,                    \* os.environ: GEMINI_API_KEY and HF_API_TOKEN, each Optional
    _GEMINI_AVAILABLE,          \* whether google.generativeai could be imported
    cursor,                     \* the window's cursor: "" or "watch"
    threads,                    \* the task_wrapper threads started, in order
    after_queue,                \* callbacks handed to self.after(0, ...), oldest first
    dialogs,                    \* the message boxes shown, each with the thread it reports
    callback_errors,            \* threads whose scheduled callback raised in the UI thread
    network_calls,              \* requests sent to a backend
    outcome,                    \* history: the branch the last analyze_drawing took
    invocations                 \* history: how often analyze_drawing ran

prog == <<draw_mode, stroke_index, current_stroke_tag, _current_stroke_has_items,
          undo_stack, redo_stack, _last_x, _last_y, _preview_item, canvas,
          next_item>>

drawing == <<draw_mode, stroke_index, current_stroke_tag, _current_stroke_has_items,
             undo_stack, redo_stack, _last_x, _last_y, _preview_item, canvas,
             next_item, button1, event, before, committed, invalidated,
             unedited, down_mode, allocated>>

analysis == <<environ, _GEMINI_AVAILABLE, cursor, threads, after_queue, dialogs,
              callback_errors, network_calls, outcome, invocations>>

vars == <<drawing, analysis>>

Modes == {"pen", "line", "rectangle", "circle"}

\* f"stroke_{self.stroke_index}"
StrokeTag(i) == "stroke_" \o ToString(i)

\* ---- the Tk canvas ------------------------------------------------------
Range(s) == {s[i] : i \in 1..Len(s)}

\* canvas.create_line / create_rectangle / create_oval: a new item, state normal
CanvasCreate(c, id, kind, tags) ==
    c \cup {[id |-> id, kind |-> kind, tags |-> tags, state |-> "normal"]}

\* canvas.delete(id): no effect when no item has that id
CanvasDelete(c, id) == {i \in c : i.id # id}

\* canvas.itemconfigure(tag, state=...): every item carrying the tag
CanvasItemConfigure(c, tag, st) ==
    {IF tag \in Range(i.tags) THEN [i EXCEPT !.state = st] ELSE i : i \in c}

\* tags=(self.current_stroke_tag,)
StrokeTags == IF current_stroke_tag = None THEN <<"None">> ELSE current_stroke_tag

\* the if/elif chain on draw_mode that picks the create_* call
ShapeKind(mode) ==
    CASE mode = "line" -> Some("line")
      [] mode = "rectangle" -> Some("rectangle")
      [] mode = "circle" -> Some("oval")
      [] OTHER -> None

\* ---- the stroke ledger: the two stacks and the canvas they show and hide --
Ledger == [undo_stack |-> undo_stack, redo_stack |-> redo_stack, canvas |-> canvas]

History == [undo_stack |-> undo_stack, redo_stack |-> redo_stack]

\* no analysis has run: default cursor, no thread, nothing scheduled or shown
AnalysisIdle ==
    /\ cursor = ""
    /\ threads = <<>>
    /\ after_queue = <<>>
    /\ dialogs = {}
    /\ callback_errors = {}
    /\ network_calls = 0
    /\ outcome = "none"
    /\ invocations = 0

InitDrawing ==
    /\ draw_mode = "pen"
    /\ stroke_index = 0
    /\ current_stroke_tag = None
    /\ _current_stroke_has_items = FALSE
    /\ undo_stack = <<>>
    /\ redo_stack = <<>>
    /\ _last_x = None
    /\ _last_y = None
    /\ _preview_item = None
    /\ canvas = {}
    /\ next_item = 1
    /\ button1 = FALSE
    /\ event = "__init__"
    /\ before = History
    /\ committed = <<>>
    /\ invalidated = {}
    /\ unedited = TRUE
    /\ down_mode = None
    /\ allocated = {}

Init ==
    /\ InitDrawing
    /\ AnalysisIdle
    /\ environ = [GEMINI_API_KEY |-> None, HF_API_TOKEN |-> None]
    /\ _GEMINI_AVAILABLE = TRUE

\* ---- handlers -----------------------------------------------------------
_set_mode(m) ==
    /\ draw_mode' = m
    /\ UNCHANGED <<stroke_index, current_stroke_tag, _current_stroke_has_items,
                   undo_stack, redo_stack, _last_x, _last_y, _preview_item,
                   canvas, next_item>>

\* mutant: the pointer-down forgets "self.stroke_index += 1"
_start_draw_no_increment(x, y) ==
    /\ stroke_index < MaxStrokes
    /\ current_stroke_tag' = Some(StrokeTag(stroke_index))
    /\ stroke_index' = stroke_index
    /\ _last_x' = Some(x)
    /\ _last_y' = Some(y)
    /\ IF draw_mode = "pen"
       THEN /\ next_item <= MaxItems
            /\ canvas' = CanvasCreate(canvas, next_item, "line",
                                      Some(StrokeTag(stroke_index)))
            /\ next_item' = next_item + 1
            /\ _current_stroke_has_items' = TRUE
       ELSE /\ _current_stroke_has_items' = FALSE
            /\ UNCHANGED <<canvas, next_item>>
    /\ UNCHANGED <<draw_mode, undo_stack, redo_stack, _preview_item>>

_start_draw(x, y) ==
    /\ stroke_index < MaxStrokes
    /\ current_stroke_tag' = Some(StrokeTag(stroke_index))
    /\ stroke_index' = stroke_index + 1
    /\ _last_x' = Some(x)
    /\ _last_y' = Some(y)
    /\ IF draw_mode = "pen"
       THEN /\ next_item <= MaxItems
            /\ canvas' = CanvasCreate(canvas, next_item, "line",
                                      Some(StrokeTag(stroke_index)))
            /\ next_item' = next_item + 1
            /\ _current_stroke_has_items' = TRUE
       ELSE /\ _current_stroke_has_items' = FALSE
            /\ UNCHANGED <<canvas, next_item>>
    /\ UNCHANGED <<draw_mode, undo_stack, redo_stack, _preview_item>>

\* mutant: the pointer-move never deletes the previous preview
_draw_motion_accumulates(x, y) ==
    IF _last_x = None \/ _last_y = None
    THEN UNCHANGED prog
    ELSE IF draw_mode = "pen"
    THEN /\ next_item <= MaxItems
         /\ canvas' = CanvasCreate(canvas, next_item, "line", StrokeTags)
         /\ next_item' = next_item + 1
         /\ _last_x' = Some(x)
         /\ _last_y' = Some(y)
         /\ UNCHANGED <<draw_mode, stroke_index, current_stroke_tag,
                        _current_stroke_has_items, undo_stack, redo_stack,
                        _preview_item>>
    ELSE LET kind == ShapeKind(draw_mode)
         IN  /\ IF kind # None
                THEN /\ next_item <= MaxItems
                     /\ canvas' = CanvasCreate(canvas, next_item, kind[1], <<>>)
                     /\ _preview_item' = Some(next_item)
                     /\ next_item' = next_item + 1
                ELSE UNCHANGED <<canvas, _preview_item, next_item>>
             /\ UNCHANGED <<draw_mode, stroke_index, current_stroke_tag,
                            _current_stroke_has_items, undo_stack, redo_stack,
                            _last_x, _last_y>>

_draw_motion(x, y) ==
    IF _last_x = None \/ _last_y = None
    THEN UNCHANGED prog
    ELSE IF draw_mode = "pen"
    THEN /\ next_item <= MaxItems
         /\ canvas' = CanvasCreate(canvas, next_item, "line", StrokeTags)
         /\ next_item' = next_item + 1
         /\ _last_x' = Some(x)
         /\ _last_y' = Some(y)
         /\ UNCHANGED <<draw_mode, stroke_index, current_stroke_tag,
                        _current_stroke_has_items, undo_stack, redo_stack,
                        _preview_item>>
    ELSE LET c1 == IF TruthyItem(_preview_item)
                   THEN CanvasDelete(canvas, _preview_item[1])
                   ELSE canvas
             kind == ShapeKind(draw_mode)
         IN  /\ IF kind # None
                THEN /\ next_item <= MaxItems
                     /\ canvas' = CanvasCreate(c1, next_item, kind[1], <<>>)
                     /\ _preview_item' = Some(next_item)
                     /\ next_item' = next_item + 1
                ELSE /\ canvas' = c1
                     /\ UNCHANGED <<_preview_item, next_item>>
             /\ UNCHANGED <<draw_mode, stroke_index, current_stroke_tag,
                            _current_stroke_has_items, undo_stack, redo_stack,
                            _last_x, _last_y>>

\* mutant: the commit forgets redo_stack.clear()
CommitStroke_keeps_redo(has_items, tag, stack, undone) ==
    IF has_items /\ TruthyTag(tag)
    THEN [undo_stack |-> Append(stack, tag[1]), redo_stack |-> undone]
    ELSE [undo_stack |-> stack, redo_stack |-> undone]

\* mutant: the commit inserts the tag at the bottom of undo_stack
CommitStroke_prepends(has_items, tag, stack, undone) ==
    IF has_items /\ TruthyTag(tag)
    THEN [undo_stack |-> <<tag[1]>> \o stack, redo_stack |-> <<>>]
    ELSE [undo_stack |-> stack, redo_stack |-> undone]

\* mutant: redo_stack.clear() sits outside the "if", so an empty stroke clears it
CommitStroke_always_clears(has_items, tag, stack, undone) ==
    IF has_items /\ TruthyTag(tag)
    THEN [undo_stack |-> Append(stack, tag[1]), redo_stack |-> <<>>]
    ELSE [undo_stack |-> stack, redo_stack |-> <<>>]

\* "if self._current_stroke_has_items and self.current_stroke_tag:" append, clear
CommitStroke(has_items, tag, stack, undone) ==
    IF has_items /\ TruthyTag(tag)
    THEN [undo_stack |-> Append(stack, tag[1]), redo_stack |-> <<>>]
    ELSE [undo_stack |-> stack, redo_stack |-> undone]

_end_draw(x, y) ==
    LET shape == draw_mode # "pen" /\ _last_x # None /\ _last_y # None
        drop == shape /\ TruthyItem(_preview_item)
        c1 == IF drop THEN CanvasDelete(canvas, _preview_item[1]) ELSE canvas
        kind == IF shape THEN ShapeKind(draw_mode) ELSE None
        has_items == IF shape THEN TRUE ELSE _current_stroke_has_items
        stacks == CommitStroke(has_items, current_stroke_tag, undo_stack, redo_stack)
    IN  /\ _preview_item' = IF drop THEN None ELSE _preview_item
        /\ IF kind # None
           THEN /\ next_item <= MaxItems
                /\ canvas' = CanvasCreate(c1, next_item, kind[1], StrokeTags)
                /\ next_item' = next_item + 1
           ELSE /\ canvas' = c1
                /\ UNCHANGED next_item
        /\ undo_stack' = stacks.undo_stack
        /\ redo_stack' = stacks.redo_stack
        /\ _current_stroke_has_items' = FALSE
        /\ current_stroke_tag' = None
        /\ _last_x' = None
        /\ _last_y' = None
        /\ UNCHANGED <<draw_mode, stroke_index>>

\* mutant: undo moves the tag but never hides the stroke's items
undo_no_hide(s) ==
    IF s.undo_stack = <<>>
    THEN s
    ELSE LET stroke_tag == s.undo_stack[Len(s.undo_stack)]
         IN  [undo_stack |-> SubSeq(s.undo_stack, 1, Len(s.undo_stack) - 1),
              canvas |-> s.canvas,
              redo_stack |-> Append(s.redo_stack, stroke_tag)]

\* mutant: undo reads the top of undo_stack without popping it
undo_no_pop(s) ==
    IF s.undo_stack = <<>>
    THEN s
    ELSE LET stroke_tag == s.undo_stack[Len(s.undo_stack)]
         IN  [undo_stack |-> s.undo_stack,
              canvas |-> CanvasItemConfigure(s.canvas, stroke_tag, "hidden"),
              redo_stack |-> Append(s.redo_stack, stroke_tag)]

\* mutant: undo pops and hides the stroke but never pushes it on redo_stack
undo_forgets(s) ==
    IF s.undo_stack = <<>>
    THEN s
    ELSE LET stroke_tag == s.undo_stack[Len(s.undo_stack)]
         IN  [undo_stack |-> SubSeq(s.undo_stack, 1, Len(s.undo_stack) - 1),
              canvas |-> CanvasItemConfigure(s.canvas, stroke_tag, "hidden"),
              redo_stack |-> s.redo_stack]

\* mutant: undo on an empty undo_stack drops redo_stack before returning
undo_empty_clears(s) ==
    IF s.undo_stack = <<>>
    THEN [s EXCEPT !.redo_stack = <<>>]
    ELSE LET stroke_tag == s.undo_stack[Len(s.undo_stack)]
         IN  [undo_stack |-> SubSeq(s.undo_stack, 1, Len(s.undo_stack) - 1),
              canvas |-> CanvasItemConfigure(s.canvas, stroke_tag, "hidden"),
              redo_stack |-> Append(s.redo_stack, stroke_tag)]

\* undo(): what it makes of the two stacks and the canvas
undo(s) ==
    IF s.undo_stack = <<>>
    THEN s
    ELSE LET stroke_tag == s.undo_stack[Len(s.undo_stack)]
         IN  [undo_stack |-> SubSeq(s.undo_stack, 1, Len(s.undo_stack) - 1),
              canvas |-> CanvasItemConfigure(s.canvas, stroke_tag, "hidden"),
              redo_stack |-> Append(s.redo_stack, stroke_tag)]

\* mutant: redo moves the tag back but never reveals the stroke's items
redo_no_reveal(s) ==
    IF s.redo_stack = <<>>
    THEN s
    ELSE LET stroke_tag == s.redo_stack[Len(s.redo_stack)]
         IN  [redo_stack |-> SubSeq(s.redo_stack, 1, Len(s.redo_stack) - 1),
              canvas |-> s.canvas,
              undo_stack |-> Append(s.undo_stack, stroke_tag)]

\* redo(): what it makes of the two stacks and the canvas
redo(s) ==
    IF s.redo_stack = <<>>
    THEN s
    ELSE LET stroke_tag == s.redo_stack[Len(s.redo_stack)]
         IN  [redo_stack |-> SubSeq(s.redo_stack, 1, Len(s.redo_stack) - 1),
              canvas |-> CanvasItemConfigure(s.canvas, stroke_tag, "normal"),
              undo_stack |-> Append(s.undo_stack, stroke_tag)]

\* mutant: clear_canvas forgets redo_stack.clear()
clear_canvas_keeps_redo(s) ==
    [canvas |-> {}, undo_stack |-> <<>>, redo_stack |-> s.redo_stack]

\* clear_canvas(): what it makes of the two stacks and the canvas
clear_canvas(s) ==
    [canvas |-> {}, undo_stack |-> <<>>, redo_stack |-> <<>>]

\* a handler that touches nothing but the two stacks and the canvas
SetLedger(s) ==
    /\ undo_stack' = s.undo_stack
    /\ redo_stack' = s.redo_stack
    /\ canvas' = s.canvas
    /\ UNCHANGED <<draw_mode, stroke_index, current_stroke_tag,
                   _current_stroke_has_items, _last_x, _last_y, _preview_item,
                   next_item>>

\* ---- event dispatch (the bindings of _build_ui and _bind_shortcuts) -------
Last(s) == s[Len(s)]

Dispatch(handler) ==
    /\ UNCHANGED analysis
    /\ event' = handler
    /\ before' = History
    /\ committed' =
           IF handler = "clear_canvas" THEN <<>>
           ELSE IF handler = "_end_draw" /\ Len(undo_stack') > Len(undo_stack)
           THEN Append(committed, Last(undo_stack'))
           ELSE committed
    /\ invalidated' =
           IF handler = "clear_canvas" THEN {}
           ELSE IF handler = "_end_draw" /\ Len(undo_stack') > Len(undo_stack)
           THEN invalidated \cup Range(redo_stack)
           ELSE invalidated
    /\ unedited' =
           IF handler = "clear_canvas" THEN TRUE
           ELSE IF handler \in {"undo", "redo"} /\ History' # History THEN FALSE
           ELSE unedited
    /\ down_mode' =
           IF handler = "_start_draw" THEN Some(draw_mode)
           ELSE IF handler = "_end_draw" THEN None
           ELSE down_mode
    /\ allocated' =
           IF handler = "_start_draw"
           THEN allocated \cup Range(current_stroke_tag')
           ELSE allocated

ButtonPress1 ==
    \E x \in Coord, y \in Coord :
        /\ ~button1
        /\ _start_draw(x, y)
        /\ button1' = TRUE
        /\ Dispatch("_start_draw")

B1Motion ==
    \E x \in Coord, y \in Coord :
        /\ button1
        /\ _draw_motion(x, y)
        /\ UNCHANGED button1
        /\ Dispatch("_draw_motion")

ButtonRelease1 ==
    \E x \in Coord, y \in Coord :
        /\ button1
        /\ _end_draw(x, y)
        /\ button1' = FALSE
        /\ Dispatch("_end_draw")

SelectMode ==
    \E m \in Modes :
        /\ _set_mode(m)
        /\ UNCHANGED button1
        /\ Dispatch("_set_mode")

Undo ==
    /\ SetLedger(undo(Ledger))
    /\ UNCHANGED button1
    /\ Dispatch("undo")

Redo ==
    /\ SetLedger(redo(Ledger))
    /\ UNCHANGED button1
    /\ Dispatch("redo")

Clear ==
    /\ SetLedger(clear_canvas(Ledger))
    /\ UNCHANGED button1
    /\ Dispatch("clear_canvas")

Next ==
    \/ ButtonPress1
    \/ B1Motion
    \/ ButtonRelease1
    \/ SelectMode
    \/ Undo
    \/ Redo
    \/ Clear

Spec == Init /\ [][Next]_vars

\* ---- the analysis feature -------------------------------------------------
\* what os.environ.get may return: unset, set but empty, set
EnvValues == {None, Some(""), Some("key")}

\* Python truthiness of os.environ.get(...) ("if gemini_key", "if hf_token")
TruthyEnv(o) == o # None /\ o[1] # ""

InitAnalysis ==
    /\ InitDrawing
    /\ AnalysisIdle
    /\ environ \in [GEMINI_API_KEY : EnvValues, HF_API_TOKEN : EnvValues]
    /\ _GEMINI_AVAILABLE \in BOOLEAN

\* mutant: the Hugging Face token is tested before the Gemini key
SelectBackend_hf_first(gemini_key, available, hf_token) ==
    IF TruthyEnv(hf_token) THEN "_analyze_with_hf"
    ELSE IF TruthyEnv(gemini_key) /\ available THEN "_analyze_with_gemini"
    ELSE "not_configured"

\* analyze_drawing's choice: Gemini if its key is set and the library loaded,
\* else Hugging Face if its token is set, else the "AI not configured" box
SelectBackend(gemini_key, available, hf_token) ==
    IF TruthyEnv(gemini_key) /\ available THEN "_analyze_with_gemini"
    ELSE IF TruthyEnv(hf_token) THEN "_analyze_with_hf"
    ELSE "not_configured"

\* what one call of an analysis function can do: the requests it sends, and
\* whether it returns a message or raises
_analyze_with_gemini ==
    {[calls |-> 1, result |-> "returned"], [calls |-> 1, result |-> "raised"]}

_analyze_with_hf ==
    IF ~TruthyEnv(environ.HF_API_TOKEN)
    THEN {[calls |-> 0, result |-> "returned"]}
    ELSE {[calls |-> 1, result |-> "returned"], [calls |-> 1, result |-> "raised"]}

AnalysisFunc(f) ==
    IF f = "_analyze_with_gemini" THEN _analyze_with_gemini ELSE _analyze_with_hf

\* messagebox.showinfo / showerror: thread 0 is the UI thread itself
ShowDialog(title, thread) == dialogs' = dialogs \cup {[title |-> title, thread |-> thread]}

_run_analysis_in_thread(analysis_func) ==
    /\ cursor' = "watch"
    /\ threads' = Append(threads, [func |-> analysis_func, pc |-> "call",
                                   result |-> "none", e |-> "unbound"])

\* mutant: the busy cursor is set on entry, before the credentials are looked at
analyze_drawing_busy_first(captured) ==
    /\ invocations < MaxAnalyses
    /\ invocations' = invocations + 1
    /\ IF ~captured
       THEN /\ ShowDialog("Capture failed", 0)
            /\ outcome' = "capture_failed"
            /\ cursor' = "watch"
            /\ UNCHANGED threads
       ELSE LET choice == SelectBackend(environ.GEMINI_API_KEY, _GEMINI_AVAILABLE,
                                        environ.HF_API_TOKEN)
            IN  /\ outcome' = choice
                /\ IF choice = "not_configured"
                   THEN /\ ShowDialog("AI not configured", 0)
                        /\ cursor' = "watch"
                        /\ UNCHANGED threads
                   ELSE /\ _run_analysis_in_thread(choice)
                        /\ UNCHANGED dialogs
    /\ UNCHANGED <<environ, _GEMINI_AVAILABLE, after_queue, callback_errors,
                   network_calls>>

analyze_drawing(captured) ==
    /\ invocations < MaxAnalyses
    /\ invocations' = invocations + 1
    /\ IF ~captured
       THEN /\ ShowDialog("Capture failed", 0)
            /\ outcome' = "capture_failed"
            /\ UNCHANGED <<cursor, threads>>
       ELSE LET choice == SelectBackend(environ.GEMINI_API_KEY, _GEMINI_AVAILABLE,
                                        environ.HF_API_TOKEN)
            IN  /\ outcome' = choice
                /\ IF choice = "not_configured"
                   THEN /\ ShowDialog("AI not configured", 0)
                        /\ UNCHANGED <<cursor, threads>>
                   ELSE /\ _run_analysis_in_thread(choice)
                        /\ UNCHANGED dialogs
    /\ UNCHANGED <<environ, _GEMINI_AVAILABLE, after_queue, callback_errors,
                   network_calls>>

\* ---- task_wrapper, step by step, in its own thread ------------------------
\* "message = analysis_func(image)": returns, or raises into the except clause
TaskCall(w) ==
    /\ threads[w].pc = "call"
    /\ \E r \in AnalysisFunc(threads[w].func) :
           /\ network_calls' = network_calls + r.calls
           /\ threads' = [threads EXCEPT ![w].pc = r.result,
                                         ![w].result = r.result,
                                         ![w].e = IF r.result = "raised"
                                                  THEN "bound" ELSE "unbound"]
    /\ UNCHANGED <<environ, _GEMINI_AVAILABLE, cursor, after_queue, dialogs,
                   callback_errors, outcome, invocations>>

\* self.after(0, lambda: messagebox.showinfo(...)) or, in the except clause,
\* self.after(0, lambda: messagebox.showerror("AI Error", str(e)))
TaskSchedule(w) ==
    /\ threads[w].pc \in {"returned", "raised"}
    /\ after_queue' = Append(after_queue,
           [cb |-> IF threads[w].pc = "returned" THEN "showinfo" ELSE "showerror",
            thread |-> w])
    /\ threads' = [threads EXCEPT ![w].pc = IF threads[w].pc = "returned"
                                            THEN "finally" ELSE "end_except"]
    /\ UNCHANGED <<environ, _GEMINI_AVAILABLE, cursor, dialogs, callback_errors,
                   network_calls, outcome, invocations>>

\* leaving "except Exception as e:" unbinds e, which the lambda closes over
TaskEndExcept(w) ==
    /\ threads[w].pc = "end_except"
    /\ threads' = [threads EXCEPT ![w].pc = "finally", ![w].e = "unbound"]
    /\ UNCHANGED <<environ, _GEMINI_AVAILABLE, cursor, after_queue, dialogs,
                   callback_errors, network_calls, outcome, invocations>>

\* "finally: self.after(0, lambda: self.config(cursor=""))"
TaskFinally(w) ==
    /\ threads[w].pc = "finally"
    /\ after_queue' = Append(after_queue, [cb |-> "cursor", thread |-> w])
    /\ threads' = [threads EXCEPT ![w].pc = "done"]
    /\ UNCHANGED <<environ, _GEMINI_AVAILABLE, cursor, dialogs, callback_errors,
                   network_calls, outcome, invocations>>

\* the UI thread runs the oldest scheduled callback; str(e) with e unbound
\* raises NameError, which Tk reports without showing a box
RunCallback ==
    /\ after_queue # <<>>
    /\ LET c == Head(after_queue)
       IN  /\ after_queue' = Tail(after_queue)
           /\ IF c.cb = "showinfo"
              THEN /\ ShowDialog("AI Analysis", c.thread)
                   /\ UNCHANGED <<cursor, callback_errors>>
              ELSE IF c.cb = "showerror"
              THEN IF threads[c.thread].e = "bound"
                   THEN /\ ShowDialog("AI Error", c.thread)
                        /\ UNCHANGED <<cursor, callback_errors>>
                   ELSE /\ callback_errors' = callback_errors \cup {c.thread}
                        /\ UNCHANGED <<cursor, dialogs>>
              ELSE /\ cursor' = ""
                   /\ UNCHANGED <<dialogs, callback_errors>>
    /\ UNCHANGED <<environ, _GEMINI_AVAILABLE, threads, network_calls, outcome,
                   invocations>>

AnalyzeDrawing ==
    \E captured \in BOOLEAN :
        /\ analyze_drawing(captured)
        /\ UNCHANGED drawing

WorkerCall ==
    \E w \in 1..Len(threads) : TaskCall(w) /\ UNCHANGED drawing

WorkerSchedule ==
    \E w \in 1..Len(threads) : TaskSchedule(w) /\ UNCHANGED drawing

WorkerEndExcept ==
    \E w \in 1..Len(threads) : TaskEndExcept(w) /\ UNCHANGED drawing

WorkerFinally ==
    \E w \in 1..Len(threads) : TaskFinally(w) /\ UNCHANGED drawing

UiCallback ==
    /\ RunCallback
    /\ UNCHANGED drawing

NextAnalysis ==
    \/ AnalyzeDrawing
    \/ WorkerCall
    \/ WorkerSchedule
    \/ WorkerEndExcept
    \/ WorkerFinally
    \/ UiCallback

SpecAnalysis == InitAnalysis /\ [][NextAnalysis]_vars

\* ==== properties ===========================================================

\* the set of strokes in history
HistorySet == Range(undo_stack) \cup Range(redo_stack)

NoDuplicates(s) == \A i, j \in 1..Len(s) : i # j => s[i] # s[j]

\* the last handler was a pointer-up that appended its stroke to undo_stack
JustCommitted == event = "_end_draw" /\ Len(undo_stack) = Len(before.undo_stack) + 1

\* C1: after any pointer-up that commits a stroke, redo_stack is empty,
\* whatever the two stacks held before, and redo is then a no-op.
C1_CommitClearsRedo ==
    JustCommitted => (redo_stack = <<>> /\ redo(Ledger) = Ledger)

\* a stroke has just been committed while redo_stack held undone strokes
C1_Witness == JustCommitted /\ before.redo_stack # <<>>

\* C2: from any state with a non-empty undo_stack, undo then redo gives back
\* both stacks and every item's hidden/normal state; from any state with a
\* non-empty redo_stack, redo then undo does.
C2_UndoRedoRoundTrip ==
    /\ undo_stack # <<>> => redo(undo(Ledger)) = Ledger
    /\ redo_stack # <<>> => undo(redo(Ledger)) = Ledger

\* redo has just revealed a stroke with items on the canvas, and an undo from
\* here leads back to the stacks redo started from
C2_Witness ==
    /\ event = "redo"
    /\ before.redo_stack # <<>>
    /\ \E i \in canvas : Last(undo_stack) \in Range(i.tags) /\ i.state = "normal"
    /\ undo(Ledger).undo_stack = before.undo_stack
    /\ undo(Ledger).redo_stack = before.redo_stack

\* C3: in every reachable state undo_stack and redo_stack are disjoint and
\* neither holds a stroke tag twice.
C3_StacksDisjoint == NoDuplicates(undo_stack \o redo_stack)

\* both stacks hold strokes
C3_Witness == undo_stack # <<>> /\ redo_stack # <<>>

\* C4 (as claimed): the strokes in undo_stack and redo_stack are exactly the
\* strokes committed since the last clear_canvas.
C4_HistoryIsAllCommitted == HistorySet = Range(committed)

\* C4 (amended): the strokes in undo_stack and redo_stack are exactly the
\* strokes committed since the last clear_canvas minus those that were in
\* redo_stack when a later stroke was committed.
C4_HistoryIsCommittedMinusInvalidated ==
    /\ invalidated \subseteq Range(committed)
    /\ HistorySet = Range(committed) \ invalidated

\* a commit has just dropped an undone stroke from history
C4_Witness == JustCommitted /\ invalidated # {} /\ HistorySet # {}

\* C5: in a shape mode, a pointer-down directly followed by a pointer-up leaves
\* both stacks unchanged and no item tagged with that stroke on the canvas.
C5_ShapeClickDiscarded ==
    [][(event = "_start_draw" /\ event' = "_end_draw" /\ draw_mode # "pen")
         => /\ UNCHANGED <<undo_stack, redo_stack>>
            /\ \A i \in canvas' : current_stroke_tag[1] \notin Range(i.tags)]_vars

\* C6: every pointer-move and the pointer-up of a stroke in progress are
\* interpreted in the mode that was current at its pointer-down.
C6_StrokeKeepsItsMode ==
    [][(button1 /\ event' \in {"_draw_motion", "_end_draw"})
         => Some(draw_mode) = down_mode]_vars

\* C7: undo with an empty undo_stack and redo with an empty redo_stack change
\* nothing: not the stacks, not the pending stroke, not any canvas item.
C7_EmptyUndoRedoNoOp ==
    [][/\ (event' = "undo" /\ undo_stack = <<>>) => UNCHANGED prog
       /\ (event' = "redo" /\ redo_stack = <<>>) => UNCHANGED prog]_vars

\* undo has just run on an empty undo_stack, with undone strokes, canvas items
\* and a stroke in progress around
C7_Witness ==
    /\ event = "undo"
    /\ before.undo_stack = <<>>
    /\ redo_stack # <<>>
    /\ canvas # {}
    /\ current_stroke_tag # None

\* C8: after clear_canvas both stacks and the canvas are empty, so an undo or
\* a redo right after it changes nothing.
C8_ClearEmptiesHistory ==
    event = "clear_canvas"
        => /\ undo_stack = <<>>
           /\ redo_stack = <<>>
           /\ canvas = {}
           /\ undo(Ledger) = Ledger
           /\ redo(Ledger) = Ledger

\* clear_canvas has just run on two non-empty stacks
C8_Witness ==
    event = "clear_canvas" /\ before.undo_stack # <<>> /\ before.redo_stack # <<>>

\* C9: from an empty history, after N committed strokes with no undo, redo or
\* clear in between, undo_stack has length N and lists them in commit order.
C9_CommitsInOrder == unedited => undo_stack = committed

\* two strokes have been committed in a row
C9_Witness == unedited /\ JustCommitted /\ Len(committed) >= 2

\* C10: a pointer-up whose stroke has no recorded item at the commit check
\* leaves both stacks unchanged; it does not clear a non-empty redo_stack.
C10_EmptyStrokeLeavesHistory ==
    [][(/\ event' = "_end_draw"
        /\ ~_current_stroke_has_items
        /\ ~(draw_mode # "pen" /\ _last_x # None /\ _last_y # None))
         => UNCHANGED <<undo_stack, redo_stack>>]_vars

\* a pointer-up has just discarded its stroke while redo_stack held a stroke
C10_Witness ==
    /\ event = "_end_draw"
    /\ undo_stack = before.undo_stack
    /\ redo_stack = before.redo_stack
    /\ redo_stack # <<>>

\* the shape previews on a canvas: the items created without a tag
Previews(c) == {i \in c : i.tags = <<>>}

\* the items of a canvas that carry tag t
Tagged(c, t) == {i \in c : t \in Range(i.tags)}

\* the stroke number in a tag (the inverse of StrokeTag)
TagIndex(t) == CHOOSE i \in 0..MaxStrokes : StrokeTag(i) = t

\* C11: at the pointer-up of a stroke begun in a shape mode the preview is
\* removed and exactly one item tagged with the stroke is created; whenever no
\* stroke is in progress, no preview is on the canvas.
C11_PointerUpReplacesPreview ==
    [][/\ (button1 /\ event' = "_end_draw" /\ down_mode # Some("pen"))
            => /\ Previews(canvas') = {}
               /\ Cardinality(Tagged(canvas', current_stroke_tag[1]) \ canvas) = 1
       /\ ~button1' => Previews(canvas') = {}]_vars

\* C12: the canvas never holds more than one preview, and right after a
\* pointer-move handled in a shape mode it holds exactly one.
C12_OnePreview ==
    /\ Cardinality(Previews(canvas)) <= 1
    /\ (event = "_draw_motion" /\ draw_mode # "pen")
           => Cardinality(Previews(canvas)) = 1

\* a second pointer-move of a shape stroke has replaced the first preview
C12_Witness ==
    /\ event = "_draw_motion"
    /\ draw_mode # "pen"
    /\ _preview_item = Some(2)
    /\ Cardinality(Previews(canvas)) = 1

\* C13: stroke_index never decreases; every pointer-down allocates a tag whose
\* number is greater than that of every tag allocated before, and changes
\* neither stack.
C13_FreshStrokeIds ==
    [][/\ stroke_index' >= stroke_index
       /\ event' = "_start_draw"
            => /\ current_stroke_tag' # None
               /\ \A t \in allocated :
                      TagIndex(t) < TagIndex(current_stroke_tag'[1])
               /\ UNCHANGED <<undo_stack, redo_stack>>]_vars

\* a second pointer-down has just allocated its tag, with history around
C13_Witness ==
    /\ event = "_start_draw"
    /\ Cardinality(allocated) >= 2
    /\ HistorySet # {}

\* C18: of every stroke committed since the last clear_canvas, the items are
\* normal iff its tag is in undo_stack; the items of strokes in redo_stack and
\* of strokes a later commit dropped from redo_stack are hidden.
C18_VisibleIffActive ==
    /\ \A t \in Range(committed) : \A i \in Tagged(canvas, t) :
           (i.state = "normal") <=> (t \in Range(undo_stack))
    /\ \A t \in Range(redo_stack) \cup invalidated : \A i \in Tagged(canvas, t) :
           i.state = "hidden"

\* a dropped stroke sits hidden on the canvas beside a visible active stroke
C18_Witness ==
    /\ \E t \in invalidated : \E i \in Tagged(canvas, t) : i.state = "hidden"
    /\ \E t \in Range(undo_stack) : \E i \in Tagged(canvas, t) : i.state = "normal"

\* C19: tag numbers increase strictly from bottom to top of undo_stack,
\* decrease strictly from bottom to top of redo_stack, and every tag in
\* redo_stack has a greater number than every tag in undo_stack.
C19_StacksOrdered ==
    /\ \A i, j \in 1..Len(undo_stack) :
           i < j => TagIndex(undo_stack[i]) < TagIndex(undo_stack[j])
    /\ \A i, j \in 1..Len(redo_stack) :
           i < j => TagIndex(redo_stack[i]) > TagIndex(redo_stack[j])
    /\ \A u \in Range(undo_stack), r \in Range(redo_stack) :
           TagIndex(u) < TagIndex(r)

\* redo has just put the oldest undone stroke back on top of an older one
C19_Witness ==
    /\ event = "redo"
    /\ Len(undo_stack) >= 2
    /\ before.redo_stack # <<>>

\* C20: every tag in undo_stack or redo_stack has at least one item on the
\* canvas.
C20_HistoryTagsHaveItems ==
    \A t \in HistorySet : Tagged(canvas, t) # {}


\* ---- the analysis feature (checked under SpecAnalysis) --------------------
\* a thread is outstanding from its start until its result callback has run
Outstanding(w) ==
    \/ threads[w].pc \in {"call", "returned", "raised"}
    \/ \E k \in 1..Len(after_queue) :
           after_queue[k].thread = w /\ after_queue[k].cb \in {"showinfo", "showerror"}

\* a thread is settled once it has ended and none of its callbacks is pending
Settled(w) ==
    /\ threads[w].pc = "done"
    /\ \A k \in 1..Len(after_queue) : after_queue[k].thread # w

NoCredential ==
    /\ ~TruthyEnv(environ.GEMINI_API_KEY)
    /\ ~TruthyEnv(environ.HF_API_TOKEN)

\* C14: while any analysis thread is outstanding the cursor is "watch", also
\* when analyses overlap.
C14_BusyWhileOutstanding ==
    (\E w \in 1..Len(threads) : Outstanding(w)) => cursor = "watch"

\* C15: every analysis thread that has ended and whose callbacks have run has
\* handed over exactly one result: the success box if the analysis function
\* returned, the error box if it raised.
C15_ExactlyOneResult ==
    \A w \in 1..Len(threads) :
        Settled(w) =>
            {d \in dialogs : d.thread = w} =
                {[title |-> IF threads[w].result = "returned"
                            THEN "AI Analysis" ELSE "AI Error",
                  thread |-> w]}

\* C16 as stated: with no credential configured an invocation of
\* analyze_drawing ends in the "AI not configured" box, with no thread, no
\* network call and the cursor untouched.
C16_NoCredentialNotConfigured ==
    (invocations > 0 /\ NoCredential) =>
        /\ outcome = "not_configured"
        /\ [title |-> "AI not configured", thread |-> 0] \in dialogs
        /\ threads = <<>>
        /\ network_calls = 0
        /\ cursor = ""

\* C16 amended: with no credential configured an invocation of analyze_drawing
\* ends in the "AI not configured" box, or in the "Capture failed" box if the
\* canvas could not be captured; either way no thread is started, nothing is
\* scheduled, no network call is made and the cursor is never set.
C16_NoCredentialNoAnalysis ==
    (invocations > 0 /\ NoCredential) =>
        /\ outcome \in {"not_configured", "capture_failed"}
        /\ outcome = "not_configured"
               => [title |-> "AI not configured", thread |-> 0] \in dialogs
        /\ outcome = "capture_failed"
               => [title |-> "Capture failed", thread |-> 0] \in dialogs
        /\ \A d \in dialogs : d.title \in {"AI not configured", "Capture failed"}
        /\ threads = <<>>
        /\ after_queue = <<>>
        /\ network_calls = 0
        /\ cursor = ""

C16_Witness ==
    /\ NoCredential
    /\ invocations > 0
    /\ outcome = "not_configured"
    /\ [title |-> "AI not configured", thread |-> 0] \in dialogs

\* C17 as stated: the backend depends only on the credentials: Gemini whenever
\* its key is configured, Hugging Face exactly when only its token is.
C17_SelectionByCredentialsOnly ==
    invocations > 0 =>
        /\ TruthyEnv(environ.GEMINI_API_KEY) => outcome = "_analyze_with_gemini"
        /\ outcome = "_analyze_with_hf"
               <=> (~TruthyEnv(environ.GEMINI_API_KEY) /\ TruthyEnv(environ.HF_API_TOKEN))

\* C17 amended: once the canvas is captured, Gemini is used exactly when its
\* key is configured and its library could be imported, and Hugging Face
\* exactly when its token is configured and Gemini is not used; every thread
\* started runs the backend so chosen.
C17_SelectionByCredentialsAndLibrary ==
    LET gemini == TruthyEnv(environ.GEMINI_API_KEY) /\ _GEMINI_AVAILABLE
        hf == TruthyEnv(environ.HF_API_TOKEN) /\ ~gemini
    IN  /\ (invocations > 0 /\ outcome # "capture_failed") =>
               /\ outcome = "_analyze_with_gemini" <=> gemini
               /\ outcome = "_analyze_with_hf" <=> hf
               /\ outcome = "not_configured" <=> (~gemini /\ ~hf)
        /\ \A w \in 1..Len(threads) :
               /\ threads[w].func = "_analyze_with_gemini" <=> gemini
               /\ threads[w].func = "_analyze_with_hf" <=> hf

C17_Witness ==
    /\ TruthyEnv(environ.GEMINI_API_KEY)
    /\ ~_GEMINI_AVAILABLE
    /\ outcome = "_analyze_with_hf"
    /\ threads # <<>>
    /\ threads[Len(threads)].func = "_analyze_with_hf"

====
